---- MODULE Spec2Model ----
(***************************************************************************)
(* Model of the Town of paddlers-frontend (src/paddlers-frontend/src/game/ *)
(* town.rs) over the TownMap of paddlers-shared-lib                        *)
(* (src/paddlers-shared-lib/src/game_mechanics/town.rs).                   *)
(*                                                                         *)
(* TownState, TileState and BuildingType::capacity are used by town.rs but *)
(* their source is not part of the tree; they are modelled after the       *)
(* written specification (TileStateRegistry and ActivityLedger).           *)
(***************************************************************************)
EXTENDS Integers, Sequences, FiniteSets, TLC

(* ------------------------------------------------------------------ *)
(* Program constants                                                   *)
(* ------------------------------------------------------------------ *)
TOWN_X == 23
TOWN_Y == 13
TOWN_LANE_Y == 6

(* ------------------------------------------------------------------ *)
(* Bounds of the model                                                 *)
(* ------------------------------------------------------------------ *)
\* owners (specs::Entity handles) handed to place_building are 1..MaxOwner
MaxOwner == 2
\* forest_size stays within 0..MaxForest
MaxForest == 1
\* forest_usage stays within 0..MaxUsage
MaxUsage == 2
\* a window of task calls is followed over at most MaxWindow calls
MaxWindow == 4
\* tile_type is asked for indices up to QueryMargin beyond the grid, in each coordinate
QueryMargin == 2
\* ranges are given in halves of a tile, from 0 to MaxRange2 halves
MaxRange2 == 5
\* the network channel holds at most MaxChan messages that update has not taken
MaxChan == 2
\* the runs that number the network messages follow the first MaxSent of them
MaxSent == 3

Owners == 1..MaxOwner
\* the value of a call that returns no entity: a handle that is no owner
NoOwner == MaxOwner + 1

\* The tile indices the callers pass: an empty tile, a lane tile, and one
\* index outside the grid in each coordinate.
TileInputs == {<<10, 5>>, <<10, 6>>, <<TOWN_X, 5>>, <<10, TOWN_Y>>}

BuildingTypes == {"SawMill", "BundlingStation"}
TaskTypes == {"GatherSticks"}

(* ------------------------------------------------------------------ *)
(* TownTileType and TownMap                                            *)
(* ------------------------------------------------------------------ *)
EMPTY == <<"EMPTY">>
LANE == <<"LANE">>
BUILDING(bt) == <<"BUILDING", bt>>
None == <<"None">>

IsBuilding(t) == t[1] = "BUILDING"

InGrid(index) == index[1] \in 0..(TOWN_X - 1) /\ index[2] \in 0..(TOWN_Y - 1)

\* basic_map with the lane in the column TOWN_LANE_Y, not in the row
basic_map_lane_column == [x \in 0..(TOWN_X - 1) |-> [y \in 0..(TOWN_Y - 1) |-> IF x = TOWN_LANE_Y THEN LANE ELSE EMPTY]]

basic_map == [x \in 0..(TOWN_X - 1) |-> [y \in 0..(TOWN_Y - 1) |-> IF y = TOWN_LANE_Y THEN LANE ELSE EMPTY]]

\* tile_type with the two coordinates taken in each other's place
tile_type_swapped(m, index) == IF index[2] \in DOMAIN m /\ index[1] \in DOMAIN m[index[2]] THEN m[index[2]][index[1]] ELSE None

\* Option<&TownTileType>: None outside of the two array bounds
tile_type(m, index) == IF index[1] \in DOMAIN m /\ index[2] \in DOMAIN m[index[1]] THEN m[index[1]][index[2]] ELSE None

\* the write through the reference that tile_type_mut hands out
tile_type_mut(m, index, t) == [m EXCEPT ![index[1]][index[2]] = t]

TileType_is_buildable(t) == t = EMPTY

\* is_walkable with the arms of LANE and BUILDING in each other's place
TileType_is_walkable_arms_swapped(t) == t = EMPTY \/ IsBuilding(t)

TileType_is_walkable(t) == t = EMPTY \/ t = LANE

\* Town::is_buildable: the tile type decides, an index outside the grid is not buildable
Town_is_buildable(m, index) == tile_type(m, index) # None /\ TileType_is_buildable(tile_type(m, index))

(* ------------------------------------------------------------------ *)
(* Tiles in range. A range (f32 in the source) is given in halves of a *)
(* tile: range2 = 2 * range. HugeRange2 stands for every range of 2^w  *)
(* tiles or more, w the width of usize. A usize is given by its value  *)
(* modulo 2^w; of the values of 2^(w-1) and more only usize_MAX        *)
(* = 2^w - 1 occurs.                                                   *)
(* ------------------------------------------------------------------ *)
X == TOWN_X
Y == TOWN_Y

usize_MAX == 0 - 1

HugeRange2 == 0 - 2

Ranges2 == (0..MaxRange2) \cup {HugeRange2}

distance2(a, b) == (a[1] - b[1]) * (a[1] - b[1]) + (a[2] - b[2]) * (a[2] - b[2])

\* distance2(a, b) <= range * range
are_tiles_in_range(a, b, range2) == range2 = HugeRange2 \/ 4 * distance2(a, b) <= range2 * range2

\* radius.ceil() as usize: the cast saturates
ceil(range2) == IF range2 = HugeRange2 THEN usize_MAX ELSE (range2 + 1) \div 2

saturating_sub(a, b) == IF b # usize_MAX /\ a > b THEN a - b ELSE 0

\* a + r + 1 is 2^w or more
add_overflows(a, r) == r = usize_MAX

\* The tiles that the two loops push, as a set. An overflowing addition
\* panics in a build with overflow checks (on and off together with the
\* debug assertions in the default profiles) and wraps in one without.
tiles_in_rectified_circle(dbg, tile, radius2) ==
    LET r == ceil(radius2)
        xmin == saturating_sub(tile[1], r)
        ymin == saturating_sub(tile[2], r)
        xmax == IF tile[1] + r + 1 > X THEN X ELSE tile[1] + r + 1
        ymax == IF tile[2] + r + 1 > Y THEN Y ELSE tile[2] + r + 1
    IN IF dbg /\ (add_overflows(tile[1], r) \/ add_overflows(tile[2], r))
       THEN [res |-> "panic", tiles |-> {}]
       ELSE [res |-> "Ok", tiles |-> {xy \in (xmin..(xmax - 1)) \X (ymin..(ymax - 1)) : are_tiles_in_range(tile, xy, radius2)}]

\* lane_in_range that tells the lane by the row of the tile, not by its type
Town_lane_in_range_by_row(dbg, m, pos, range2) ==
    LET c == tiles_in_rectified_circle(dbg, pos, range2)
    IN IF c.res = "panic" \/ \E xy \in c.tiles : ~InGrid(xy)
       THEN [res |-> "panic", tiles |-> {}]
       ELSE [res |-> "Ok", tiles |-> {xy \in c.tiles : xy[2] = TOWN_LANE_Y}]

\* lane_in_range without the filter
Town_lane_in_range_unfiltered(dbg, m, pos, range2) ==
    LET c == tiles_in_rectified_circle(dbg, pos, range2)
    IN IF c.res = "panic" \/ \E xy \in c.tiles : ~InGrid(xy)
       THEN [res |-> "panic", tiles |-> {}]
       ELSE [res |-> "Ok", tiles |-> c.tiles]

\* The tiles of the circle that the filter keeps, as a set; self.map[*xy]
\* panics for an index outside of the map.
Town_lane_in_range(dbg, m, pos, range2) ==
    LET c == tiles_in_rectified_circle(dbg, pos, range2)
    IN IF c.res = "panic" \/ \E xy \in c.tiles : ~InGrid(xy)
       THEN [res |-> "panic", tiles |-> {}]
       ELSE [res |-> "Ok", tiles |-> {xy \in c.tiles : m[xy[1]][xy[2]] = LANE}]

\* TownMap::distance_to_lane: the minimum over the Lane tiles of the Euclidean
\* distance to the tile, given by its square
TownMap_distance_to_lane2(m, i) ==
    LET d2 == {distance2(i, <<x, y>>) : <<x, y>> \in {xy \in (DOMAIN m) \X (0..(TOWN_Y - 1)) : m[xy[1]][xy[2]] = LANE}}
    IN CHOOSE d \in d2 : \A e \in d2 : d <= e

\* distance_to_lane with the two coordinates of the tile in each other's place
Town_distance_to_lane2_swapped(m, i) == TownMap_distance_to_lane2(m, <<i[2], i[1]>>)

Town_distance_to_lane2(m, i) == TownMap_distance_to_lane2(m, i)

(* ------------------------------------------------------------------ *)
(* TileState and TownState (registry and ledger)                       *)
(* ------------------------------------------------------------------ *)
capacity(bt) == IF bt = "BundlingStation" THEN 2 ELSE 1

new_building(id, cap, count) == [entity |-> id, capacity |-> cap, entity_count |-> count]

try_add_entity(s) == IF s.entity_count < s.capacity THEN [s |-> [s EXCEPT !.entity_count = @ + 1], res |-> "Ok"] ELSE [s |-> s, res |-> "CapacityExceeded"]

try_remove_entity(s) == IF s.entity_count > 0 THEN [s |-> [s EXCEPT !.entity_count = @ - 1], res |-> "Ok"] ELSE [s |-> s, res |-> "Underflow"]

TownState_new == [tiles |-> <<>>, forest_size |-> 0, forest_usage |-> 0]

HasState(st, i) == i \in DOMAIN st.tiles

TownState_insert(st, i, s) == [st EXCEPT !.tiles = [j \in (DOMAIN st.tiles) \cup {i} |-> IF j = i THEN s ELSE st.tiles[j]]]

TownState_remove(st, i) == [st EXCEPT !.tiles = [j \in (DOMAIN st.tiles) \ {i} |-> st.tiles[j]]]

register_task_begin(st, task) == [st |-> [st EXCEPT !.forest_usage = @ + 1], res |-> "Ok"]

register_task_end(st, task) == IF st.forest_usage = 0 THEN [st |-> st, res |-> "Imbalance"] ELSE [st |-> [st EXCEPT !.forest_usage = @ - 1], res |-> "Ok"]

(* ------------------------------------------------------------------ *)
(* Town operations as functions of the town (map, state)               *)
(* The result carries the town after the call, the outcome of the call *)
(* ("panic" when the call panics) and the entity it returns.           *)
(* ------------------------------------------------------------------ *)
Outcome(m, st, res, val) == [map |-> m, state |-> st, res |-> res, val |-> val]

\* place_building without the insert into the registry
Town_place_building_no_insert(m, st, dbg, i, bt, id) ==
    IF dbg /\ ~Town_is_buildable(m, i)
    THEN Outcome(m, st, "panic", NoOwner)
    ELSE IF tile_type(m, i) = None
         THEN Outcome(m, st, "panic", NoOwner)
         ELSE Outcome(tile_type_mut(m, i, BUILDING(bt)), st, "Ok", NoOwner)

\* place_building with the capacity and the count passed in each other's place
Town_place_building_swapped(m, st, dbg, i, bt, id) ==
    IF dbg /\ ~Town_is_buildable(m, i)
    THEN Outcome(m, st, "panic", NoOwner)
    ELSE IF tile_type(m, i) = None
         THEN Outcome(m, st, "panic", NoOwner)
         ELSE Outcome(tile_type_mut(m, i, BUILDING(bt)), TownState_insert(st, i, new_building(id, 0, capacity(bt))), "Ok", NoOwner)

\* debug_assert!(self.is_buildable(i)) is compiled in debug builds only;
\* tile.unwrap() panics outside of the map in every build.
Town_place_building(m, st, dbg, i, bt, id) ==
    IF dbg /\ ~Town_is_buildable(m, i)
    THEN Outcome(m, st, "panic", NoOwner)
    ELSE IF tile_type(m, i) = None
         THEN Outcome(m, st, "panic", NoOwner)
         ELSE Outcome(tile_type_mut(m, i, BUILDING(bt)), TownState_insert(st, i, new_building(id, capacity(bt), 0)), "Ok", NoOwner)

\* remove_building that empties the whole registry
Town_remove_building_clears_registry(m, st, i) ==
    IF tile_type(m, i) = None
    THEN Outcome(m, st, "panic", NoOwner)
    ELSE IF ~HasState(st, i)
         THEN Outcome(tile_type_mut(m, i, EMPTY), st, "panic", NoOwner)
         ELSE Outcome(tile_type_mut(m, i, EMPTY), [st EXCEPT !.tiles = <<>>], "Ok", st.tiles[i].entity)

\* remove_building that reads the TileState and leaves it in the registry
Town_remove_building_keeps_state(m, st, i) ==
    IF tile_type(m, i) = None
    THEN Outcome(m, st, "panic", NoOwner)
    ELSE IF ~HasState(st, i)
         THEN Outcome(tile_type_mut(m, i, EMPTY), st, "panic", NoOwner)
         ELSE Outcome(tile_type_mut(m, i, EMPTY), st, "Ok", st.tiles[i].entity)

\* tile.unwrap() panics outside of the map; the tile is set to EMPTY before
\* the registry is asked; without a TileState there is no entity to return.
Town_remove_building(m, st, i) ==
    IF tile_type(m, i) = None
    THEN Outcome(m, st, "panic", NoOwner)
    ELSE IF ~HasState(st, i)
         THEN Outcome(tile_type_mut(m, i, EMPTY), st, "panic", NoOwner)
         ELSE Outcome(tile_type_mut(m, i, EMPTY), TownState_remove(st, i), "Ok", st.tiles[i].entity)

\* add_entity_to_building that raises the count without asking try_add_entity
Town_add_entity_unchecked(m, st, i) ==
    IF ~HasState(st, i)
    THEN Outcome(m, st, "NoStateForTile", NoOwner)
    ELSE Outcome(m, [st EXCEPT !.tiles[i].entity_count = @ + 1], "Ok", NoOwner)

\* add_entity_to_building that ignores a missing TileState
Town_add_entity_ignores_missing(m, st, i) ==
    IF ~HasState(st, i)
    THEN Outcome(m, st, "Ok", NoOwner)
    ELSE Outcome(m, [st EXCEPT !.tiles[i] = try_add_entity(@).s], try_add_entity(st.tiles[i]).res, NoOwner)

Town_add_entity_to_building(m, st, i) ==
    IF ~HasState(st, i)
    THEN Outcome(m, st, "NoStateForTile", NoOwner)
    ELSE Outcome(m, [st EXCEPT !.tiles[i] = try_add_entity(@).s], try_add_entity(st.tiles[i]).res, NoOwner)

\* remove_entity_from_building that lowers the count without asking try_remove_entity
Town_remove_entity_unchecked(m, st, i) ==
    IF ~HasState(st, i)
    THEN Outcome(m, st, "NoStateForTile", NoOwner)
    ELSE Outcome(m, [st EXCEPT !.tiles[i].entity_count = @ - 1], "Ok", NoOwner)

\* remove_entity_from_building that delegates to try_add_entity
Town_remove_entity_adds(m, st, i) ==
    IF ~HasState(st, i)
    THEN Outcome(m, st, "NoStateForTile", NoOwner)
    ELSE Outcome(m, [st EXCEPT !.tiles[i] = try_add_entity(@).s], try_add_entity(st.tiles[i]).res, NoOwner)

Town_remove_entity_from_building(m, st, i) ==
    IF ~HasState(st, i)
    THEN Outcome(m, st, "NoStateForTile", NoOwner)
    ELSE Outcome(m, [st EXCEPT !.tiles[i] = try_remove_entity(@).s], try_remove_entity(st.tiles[i]).res, NoOwner)

\* add_stateful_task that rejects a begin when no capacity is free
Town_add_stateful_task_gated(m, st, task) ==
    IF st.forest_usage >= st.forest_size
    THEN Outcome(m, st, "CapacityExceeded", NoOwner)
    ELSE Outcome(m, register_task_begin(st, task).st, register_task_begin(st, task).res, NoOwner)

Town_add_stateful_task(m, st, task) == Outcome(m, register_task_begin(st, task).st, register_task_begin(st, task).res, NoOwner)

\* remove_stateful_task that drops the error of register_task_end
Town_remove_stateful_task_swallows(m, st, task) == Outcome(m, register_task_end(st, task).st, "Ok", NoOwner)

\* remove_stateful_task that lowers forest_usage itself, without the check of register_task_end
Town_remove_stateful_task_unchecked(m, st, task) == Outcome(m, [st EXCEPT !.forest_usage = @ - 1], "Ok", NoOwner)

\* remove_stateful_task that never reaches the ledger
Town_remove_stateful_task_noop(m, st, task) == Outcome(m, st, "Ok", NoOwner)

\* remove_stateful_task that delegates to register_task_begin
Town_remove_stateful_task_begins(m, st, task) == Outcome(m, register_task_begin(st, task).st, register_task_begin(st, task).res, NoOwner)

Town_remove_stateful_task(m, st, task) == Outcome(m, register_task_end(st, task).st, register_task_end(st, task).res, NoOwner)

\* forest_size - forest_usage() in usize: the value is carry * 2^w + rest, w
\* the width of usize. The subtraction overflows when the usage is above the
\* size: a build with overflow checks panics, one without wraps.
Town_forest_size_free(dbg, st) ==
    IF st.forest_size >= st.forest_usage
    THEN [res |-> "Ok", free |-> [carry |-> 0, rest |-> st.forest_size - st.forest_usage]]
    ELSE IF dbg
         THEN [res |-> "panic", free |-> [carry |-> 0, rest |-> 0]]
         ELSE [res |-> "Ok", free |-> [carry |-> 1, rest |-> st.forest_size - st.forest_usage]]

\* update_forest_size that starts the usage anew with the new size
Town_update_forest_size_resets_usage(m, st, new_score) == Outcome(m, [st EXCEPT !.forest_size = new_score, !.forest_usage = 0], "Ok", NoOwner)

Town_update_forest_size(m, st, new_score) == Outcome(m, [st EXCEPT !.forest_size = new_score], "Ok", NoOwner)

Town_grow_forest(m, st, add_score) == Outcome(m, [st EXCEPT !.forest_size = @ + add_score], "Ok", NoOwner)

Town_forest_size(st) == st.forest_size

Town_forest_usage(st) == st.forest_usage

\* Ok(b) on a building, UnexpectedTileType on another tile, MapOverflow outside of the map
Town_building_type(m, i) ==
    IF tile_type(m, i) = None THEN [res |-> "MapOverflow", bt |-> ""]
    ELSE IF IsBuilding(tile_type(m, i)) THEN [res |-> "Ok", bt |-> tile_type(m, i)[2]]
    ELSE [res |-> "UnexpectedTileType", bt |-> ""]

\* get_buildable_tile that returns the projected index without asking is_buildable
Town_get_buildable_tile_unchecked(m, xy) == [some |-> TRUE, index |-> xy]

\* xy is the index that resolution.tile(pos) projects the position to
Town_get_buildable_tile(m, xy) == IF Town_is_buildable(m, xy) THEN [some |-> TRUE, index |-> xy] ELSE [some |-> FALSE, index |-> <<>>]

(* ------------------------------------------------------------------ *)
(* State                                                               *)
(* ------------------------------------------------------------------ *)
VARIABLES
    map,               \* Town.map
    state,             \* Town.state
    debug_assertions,  \* the build: TRUE with debug assertions compiled in
    observe,           \* whose calls are recorded: a tile index, or NoTile for the ledger calls
    last,              \* the last recorded call: operation, tile argument, outcome, returned entity
    hist,              \* what the callers did with the observed tile since its last placement
    run,               \* the current series of task begins followed by task ends
    win,               \* the current window of task begins and ends, in any order
    query,             \* the recorded read-only query: function, arguments, result
    pc,                \* the call that holds the town mutably, between its two writes
    lent,              \* the owners the callers passed to the town and did not get back, and those they got back
    game               \* the Game around the town: its callbacks, the network channel, the current tick

vars == <<map, state, debug_assertions, observe, last, hist, run, win, query, pc, lent, game>>

\* the tile argument of the calls that take none
NoTile == <<>>

\* the value of observe in the runs that follow a window of task calls
Window == <<"window">>

\* the value of observe in the runs that follow the owners
Lending == <<"lending">>

NoneLent == [out |-> {}, back |-> {}]

\* Game after run(): no callback runs, the channel is empty.
\*   upd, drw, evt: where update, draw and event stand ("idle": not called)
\*   chan        : the messages sent on the network channel and not yet taken
\*   local_call  : local input changed the town in the current call of update
\*   local_tick  : local input changed the town since ClockTick last advanced
\*   netted      : a network message was applied since ClockTick last advanced
\*   wrote       : the callback that last called a mutating town operation
\*   sent        : how many numbered messages were sent on the channel
\*   applied     : the numbers of the messages that update applied, in that order
\*   took        : how many messages update took since ClockTick last advanced
Game_new == [upd |-> "idle", drw |-> "idle", evt |-> "idle", chan |-> <<>>, local_call |-> FALSE, local_tick |-> FALSE, netted |-> FALSE, wrote |-> "none", sent |-> 0, applied |-> <<>>, took |-> 0]

Idle == [op |-> "idle", i |-> NoTile, bt |-> "", id |-> NoOwner]

NoQuery == [fn |-> "none", arg |-> NoTile, range2 |-> 0, res |-> <<>>]

Call(op, i, o) == [op |-> op, i |-> i, res |-> o.res, val |-> o.val]

\* a panic ends the program
Running == last.res # "panic"

(* ------------------------------------------------------------------ *)
(* Record of the calls (observation only, no effect on the town).      *)
(* Every call is made in every run; a run records the calls on one     *)
(* tile, or the calls on the ledger, and every call that panics.       *)
(*   hist.owner : the owner passed to the placement on the observed    *)
(*                tile when that tile was buildable and no placement   *)
(*                or removal on it followed                            *)
(*   hist.adds  : n >= 0 when the building on the observed tile is     *)
(*                freshly placed and exactly n add_entity_to_building  *)
(*                calls, and no other call on that tile, followed (n   *)
(*                up to capacity + 1); -1 otherwise                    *)
(*   hist.reused: a building with occupancy > 0 was removed from the   *)
(*                observed tile                                        *)
(*   run        : b begins since the series started at usage u0,       *)
(*                followed by e ends (e up to b + 2); ok while each of *)
(*                the first b ends succeeded                           *)
(*   win        : nb begins and ne ends, in any order, since a point   *)
(*                of the run at which the usage was u0 (any point: a   *)
(*                window may start before any task call, and starts    *)
(*                anew after MaxWindow calls); ok while every end of   *)
(*                the window succeeded                                 *)
(* ------------------------------------------------------------------ *)
NoHist == [owner |-> NoOwner, adds |-> -1, reused |-> FALSE]

HistPlace(i, id, o) ==
    IF i # observe \/ o.res # "Ok" THEN hist
    ELSE IF Town_is_buildable(map, i) THEN [hist EXCEPT !.owner = id, !.adds = 0]
    ELSE [hist EXCEPT !.owner = NoOwner, !.adds = -1]

HistRemove(i) ==
    IF i # observe THEN hist
    ELSE [hist EXCEPT !.owner = NoOwner, !.adds = -1, !.reused = @ \/ (HasState(state, i) /\ state.tiles[i].entity_count > 0)]

HistAdd(i) ==
    IF i # observe \/ hist.adds < 0 THEN hist
    ELSE [hist EXCEPT !.adds = IF @ > state.tiles[i].capacity THEN -1 ELSE @ + 1]

HistRemoveEntity(i) == IF i # observe THEN hist ELSE [hist EXCEPT !.adds = -1]

RunBegin ==
    IF observe # NoTile THEN run
    ELSE IF run.e > 0 \/ run.b = 0 THEN [u0 |-> state.forest_usage, b |-> 1, e |-> 0, ok |-> TRUE]
    ELSE [run EXCEPT !.b = @ + 1]

RunEnd(o) ==
    IF observe # NoTile \/ run.e > run.b + 1 THEN run
    ELSE [run EXCEPT !.e = @ + 1, !.ok = @ /\ (run.e >= run.b \/ o.res = "Ok")]

\* lent.out: the owners passed to a placement that returned, less the owners
\* that a removal returned since; lent.back: the owners a removal returned
Lend(op, i, o) ==
    IF observe # Lending \/ o.res # "Ok" THEN lent
    ELSE IF op = "place_building" THEN [lent EXCEPT !.out = @ \cup {o.state.tiles[i].entity}]
    ELSE IF op = "remove_building" THEN [out |-> lent.out \ {o.val}, back |-> lent.back \cup {o.val}]
    ELSE lent

WinStart(restart) ==
    IF restart \/ win.nb + win.ne >= MaxWindow THEN [u0 |-> state.forest_usage, nb |-> 0, ne |-> 0, ok |-> TRUE] ELSE win

WinBegin(restart) == IF observe # Window THEN win ELSE [WinStart(restart) EXCEPT !.nb = @ + 1]

WinEnd(restart, o) == IF observe # Window THEN win ELSE [WinStart(restart) EXCEPT !.ne = @ + 1, !.ok = @ /\ o.res = "Ok"]

Init ==
    /\ map = basic_map
    /\ state = TownState_new
    /\ debug_assertions \in BOOLEAN
    /\ observe \in TileInputs \cup {NoTile}
    /\ last = [op |-> "new", i |-> NoTile, res |-> "Ok", val |-> NoOwner]
    /\ hist = NoHist
    /\ run = [u0 |-> 0, b |-> 0, e |-> 0, ok |-> TRUE]
    /\ win = [u0 |-> 0, nb |-> 0, ne |-> 0, ok |-> TRUE]
    /\ query = NoQuery
    /\ pc = Idle
    /\ lent = NoneLent
    /\ game = Game_new

Apply(op, i, o) ==
    /\ Running
    /\ map' = o.map
    /\ state' = o.state
    /\ last' = IF i = observe \/ o.res = "panic" THEN Call(op, i, o) ELSE last
    /\ lent' = Lend(op, i, o)
    /\ UNCHANGED <<debug_assertions, observe, query, pc, game>>

place_building(i, bt, id) ==
    /\ Apply("place_building", i, Town_place_building(map, state, debug_assertions, i, bt, id))
    /\ hist' = HistPlace(i, id, Town_place_building(map, state, debug_assertions, i, bt, id))
    /\ UNCHANGED <<run, win>>

remove_building(i) ==
    /\ Apply("remove_building", i, Town_remove_building(map, state, i))
    /\ hist' = HistRemove(i)
    /\ UNCHANGED <<run, win>>

add_entity_to_building(i) ==
    /\ Apply("add_entity_to_building", i, Town_add_entity_to_building(map, state, i))
    /\ hist' = HistAdd(i)
    /\ UNCHANGED <<run, win>>

remove_entity_from_building(i) ==
    /\ Apply("remove_entity_from_building", i, Town_remove_entity_from_building(map, state, i))
    /\ hist' = HistRemoveEntity(i)
    /\ UNCHANGED <<run, win>>

add_stateful_task(task) ==
    /\ state.forest_usage < MaxUsage
    /\ Apply("add_stateful_task", NoTile, Town_add_stateful_task(map, state, task))
    /\ run' = RunBegin
    /\ \E restart \in BOOLEAN : win' = WinBegin(restart)
    /\ UNCHANGED hist

remove_stateful_task(task) ==
    /\ Apply("remove_stateful_task", NoTile, Town_remove_stateful_task(map, state, task))
    /\ run' = RunEnd(Town_remove_stateful_task(map, state, task))
    /\ \E restart \in BOOLEAN : win' = WinEnd(restart, Town_remove_stateful_task(map, state, task))
    /\ UNCHANGED hist

update_forest_size(new_score) ==
    /\ Apply("update_forest_size", NoTile, Town_update_forest_size(map, state, new_score))
    /\ UNCHANGED <<hist, run, win>>

grow_forest(add_score) ==
    /\ state.forest_size + add_score <= MaxForest
    /\ Apply("grow_forest", NoTile, Town_grow_forest(map, state, add_score))
    /\ UNCHANGED <<hist, run, win>>

Next ==
    \/ \E i \in TileInputs, bt \in BuildingTypes, id \in Owners : place_building(i, bt, id)
    \/ \E i \in TileInputs : remove_building(i)
    \/ \E i \in TileInputs : add_entity_to_building(i)
    \/ \E i \in TileInputs : remove_entity_from_building(i)
    \/ \E task \in TaskTypes : add_stateful_task(task)
    \/ \E task \in TaskTypes : remove_stateful_task(task)
    \/ \E new_score \in 0..MaxForest : update_forest_size(new_score)
    \/ \E add_score \in 1..MaxForest : grow_forest(add_score)

Spec == Init /\ [][Next]_vars

(* ------------------------------------------------------------------ *)
(* Read-only queries                                                   *)
(* ------------------------------------------------------------------ *)
GridTiles == (0..(TOWN_X - 1)) \X (0..(TOWN_Y - 1))

QueryIndices == (0..(TOWN_X + QueryMargin - 1)) \X (0..(TOWN_Y + QueryMargin - 1))

\* A query changes nothing, so a run may hold any number of them; the one
\* that is recorded is the first one asked after the calls it follows.
Ask(fn, arg, range2, res) ==
    /\ Running
    /\ query.fn = NoQuery.fn
    /\ query' = [fn |-> fn, arg |-> arg, range2 |-> range2, res |-> res]
    /\ UNCHANGED <<map, state, debug_assertions, observe, last, hist, run, win, pc, lent, game>>

tile_type_query(index) == Ask("tile_type", index, 0, tile_type(map, index))

is_buildable_query(index) == Ask("is_buildable", index, 0, [t |-> map[index[1]][index[2]], v |-> TileType_is_buildable(map[index[1]][index[2]])])

is_walkable_query(index) == Ask("is_walkable", index, 0, [t |-> map[index[1]][index[2]], v |-> TileType_is_walkable(map[index[1]][index[2]])])

tiles_in_rectified_circle_query(tile, radius2) ==
    /\ Running
    /\ query.fn = NoQuery.fn
    /\ query' = [fn |-> "tiles_in_rectified_circle", arg |-> tile, range2 |-> radius2, res |-> tiles_in_rectified_circle(debug_assertions, tile, radius2).tiles]
    /\ last' = IF tiles_in_rectified_circle(debug_assertions, tile, radius2).res = "panic" THEN [op |-> "tiles_in_rectified_circle", i |-> NoTile, res |-> "panic", val |-> NoOwner] ELSE last
    /\ UNCHANGED <<map, state, debug_assertions, observe, hist, run, win, pc, lent, game>>

InitQuery ==
    /\ map = basic_map
    /\ state = TownState_new
    /\ debug_assertions \in BOOLEAN
    /\ observe = NoTile
    /\ last = [op |-> "new", i |-> NoTile, res |-> "Ok", val |-> NoOwner]
    /\ hist = NoHist
    /\ run = [u0 |-> 0, b |-> 0, e |-> 0, ok |-> TRUE]
    /\ win = [u0 |-> 0, nb |-> 0, ne |-> 0, ok |-> TRUE]
    /\ query = NoQuery
    /\ pc = Idle
    /\ lent = NoneLent
    /\ game = Game_new

\* the map under placements and removals, and the queries of its tiles
NextMapQuery ==
    \/ \E i \in TileInputs, bt \in BuildingTypes, id \in Owners : place_building(i, bt, id)
    \/ \E i \in TileInputs : remove_building(i)
    \/ \E index \in QueryIndices : tile_type_query(index)
    \/ \E index \in {i \in TileInputs : InGrid(i)} : is_buildable_query(index)
    \/ \E index \in {i \in TileInputs : InGrid(i)} : is_walkable_query(index)

SpecMapQuery == InitQuery /\ [][NextMapQuery]_vars

\* the tiles in range of every tile of the grid
NextCircle == \E tile \in GridTiles, radius2 \in Ranges2 : tiles_in_rectified_circle_query(tile, radius2)

SpecCircle == InitQuery /\ [][NextCircle]_vars

(* ------------------------------------------------------------------ *)
(* place_building and remove_building statement by statement: each     *)
(* writes the map first and the registry second. A call takes the town *)
(* by &mut self and holds it until it returns or panics; a reader      *)
(* takes it by &self.                                                  *)
(* ------------------------------------------------------------------ *)
\* no exclusive borrow: a reader may run between the two writes of a call
Borrowed_shared == FALSE

\* the town is borrowed mutably by a call that has not returned
Borrowed == pc.op # Idle.op

Panic(op, i) == [op |-> op, i |-> i, res |-> "panic", val |-> NoOwner]

\* debug_assert!(is_buildable), tile_type_mut, debug_assert!(is_some), unwrap, write of the tile
place_building_write(i, bt, id) ==
    /\ Running
    /\ ~Borrowed
    /\ IF (debug_assertions /\ ~Town_is_buildable(map, i)) \/ tile_type(map, i) = None
       THEN /\ last' = Panic("place_building", i)
            /\ UNCHANGED <<map, pc>>
       ELSE /\ map' = tile_type_mut(map, i, BUILDING(bt))
            /\ pc' = [op |-> "place_building", i |-> i, bt |-> bt, id |-> id]
            /\ UNCHANGED last
    /\ UNCHANGED <<state, debug_assertions, observe, hist, run, win, query, lent, game>>

\* TileState::new_building, insert, return
place_building_insert ==
    /\ pc.op = "place_building"
    /\ state' = TownState_insert(state, pc.i, new_building(pc.id, capacity(pc.bt), 0))
    /\ last' = [op |-> "place_building", i |-> pc.i, res |-> "Ok", val |-> NoOwner]
    /\ pc' = Idle
    /\ UNCHANGED <<map, debug_assertions, observe, hist, run, win, query, lent, game>>

\* tile_type_mut, unwrap, write of EMPTY
remove_building_write(i) ==
    /\ Running
    /\ ~Borrowed
    /\ IF tile_type(map, i) = None
       THEN /\ last' = Panic("remove_building", i)
            /\ UNCHANGED <<map, pc>>
       ELSE /\ map' = tile_type_mut(map, i, EMPTY)
            /\ pc' = [op |-> "remove_building", i |-> i, bt |-> "", id |-> NoOwner]
            /\ UNCHANGED last
    /\ UNCHANGED <<state, debug_assertions, observe, hist, run, win, query, lent, game>>

\* state.remove(&i), return of the entity
remove_building_remove ==
    /\ pc.op = "remove_building"
    /\ IF HasState(state, pc.i)
       THEN /\ state' = TownState_remove(state, pc.i)
            /\ last' = [op |-> "remove_building", i |-> pc.i, res |-> "Ok", val |-> state.tiles[pc.i].entity]
       ELSE /\ last' = Panic("remove_building", pc.i)
            /\ UNCHANGED state
    /\ pc' = Idle
    /\ UNCHANGED <<map, debug_assertions, observe, hist, run, win, query, lent, game>>

\* a reader of the type and of the state of one tile, also after a panic
read_tile(i) ==
    /\ ~Borrowed
    /\ query.fn = NoQuery.fn
    /\ query' = [fn |-> "read_tile", arg |-> i, range2 |-> 0, res |-> [t |-> tile_type(map, i), s |-> HasState(state, i)]]
    /\ UNCHANGED <<map, state, debug_assertions, observe, last, hist, run, win, pc, lent, game>>

NextSteps ==
    \/ \E i \in TileInputs, bt \in BuildingTypes, id \in Owners : place_building_write(i, bt, id)
    \/ place_building_insert
    \/ \E i \in TileInputs : remove_building_write(i)
    \/ remove_building_remove
    \/ \E i \in TileInputs : read_tile(i)

SpecSteps == InitQuery /\ [][NextSteps]_vars

(* ------------------------------------------------------------------ *)
(* The ledger alone: the task calls and the forest size updates, with  *)
(* a window of the task calls followed.                                *)
(* ------------------------------------------------------------------ *)
InitLedger ==
    /\ map = basic_map
    /\ state = TownState_new
    /\ debug_assertions \in BOOLEAN
    /\ observe = Window
    /\ last = [op |-> "new", i |-> NoTile, res |-> "Ok", val |-> NoOwner]
    /\ hist = NoHist
    /\ run = [u0 |-> 0, b |-> 0, e |-> 0, ok |-> TRUE]
    /\ win = [u0 |-> 0, nb |-> 0, ne |-> 0, ok |-> TRUE]
    /\ query = NoQuery
    /\ pc = Idle
    /\ lent = NoneLent
    /\ game = Game_new

NextLedger ==
    \/ \E task \in TaskTypes : add_stateful_task(task)
    \/ \E task \in TaskTypes : remove_stateful_task(task)
    \/ \E new_score \in 0..MaxForest : update_forest_size(new_score)
    \/ \E add_score \in 1..MaxForest : grow_forest(add_score)

SpecLedger == InitLedger /\ [][NextLedger]_vars

(* ------------------------------------------------------------------ *)
(* The lane queries                                                    *)
(* ------------------------------------------------------------------ *)
lane_in_range_query(pos, range2) ==
    /\ Running
    /\ query.fn = NoQuery.fn
    /\ query' = [fn |-> "lane_in_range", arg |-> pos, range2 |-> range2, res |-> Town_lane_in_range(debug_assertions, map, pos, range2).tiles]
    /\ last' = IF Town_lane_in_range(debug_assertions, map, pos, range2).res = "panic" THEN Panic("lane_in_range", NoTile) ELSE last
    /\ UNCHANGED <<map, state, debug_assertions, observe, hist, run, win, pc, lent, game>>

distance_to_lane_query(i) == Ask("distance_to_lane", i, 0, Town_distance_to_lane2(map, i))

\* the centres of the left and right edge and of the column of the tile inputs
LaneCentres == {0, 10, TOWN_X - 1} \X (0..(TOWN_Y - 1))

\* lane_in_range on the maps that placements and removals leave
NextLane ==
    \/ \E i \in TileInputs, bt \in BuildingTypes, id \in Owners : place_building(i, bt, id)
    \/ \E i \in TileInputs : remove_building(i)
    \/ \E pos \in LaneCentres, range2 \in Ranges2 : lane_in_range_query(pos, range2)

SpecLane == InitQuery /\ [][NextLane]_vars

\* the lane queries on the basic layout
NextBasicLayout ==
    \/ \E pos \in GridTiles, range2 \in Ranges2 : lane_in_range_query(pos, range2)
    \/ \E i \in GridTiles : distance_to_lane_query(i)

SpecBasicLayout == InitQuery /\ [][NextBasicLayout]_vars

(* ------------------------------------------------------------------ *)
(* The ledger and the query of its free capacity                       *)
(* ------------------------------------------------------------------ *)
forest_size_free_query ==
    /\ Running
    /\ query.fn = NoQuery.fn
    /\ query' = [fn |-> "forest_size_free", arg |-> NoTile, range2 |-> 0, res |-> Town_forest_size_free(debug_assertions, state).free]
    /\ last' = IF Town_forest_size_free(debug_assertions, state).res = "panic" THEN Panic("forest_size_free", NoTile) ELSE last
    /\ UNCHANGED <<map, state, debug_assertions, observe, hist, run, win, pc, lent, game>>

NextFree ==
    \/ \E task \in TaskTypes : add_stateful_task(task)
    \/ \E task \in TaskTypes : remove_stateful_task(task)
    \/ \E new_score \in 0..MaxForest : update_forest_size(new_score)
    \/ \E add_score \in 1..MaxForest : grow_forest(add_score)
    \/ forest_size_free_query

SpecFree == InitQuery /\ [][NextFree]_vars

(* ------------------------------------------------------------------ *)
(* Callers that pass an owner to one placement at a time: an owner is  *)
(* passed again only after a removal has returned it.                  *)
(* ------------------------------------------------------------------ *)
InitOwners ==
    /\ map = basic_map
    /\ state = TownState_new
    /\ debug_assertions \in BOOLEAN
    /\ observe = Lending
    /\ last = [op |-> "new", i |-> NoTile, res |-> "Ok", val |-> NoOwner]
    /\ hist = NoHist
    /\ run = [u0 |-> 0, b |-> 0, e |-> 0, ok |-> TRUE]
    /\ win = [u0 |-> 0, nb |-> 0, ne |-> 0, ok |-> TRUE]
    /\ query = NoQuery
    /\ pc = Idle
    /\ lent = NoneLent
    /\ game = Game_new

NextOwners ==
    \/ \E i \in TileInputs, bt \in BuildingTypes, id \in Owners \ lent.out : place_building(i, bt, id)
    \/ \E i \in TileInputs : remove_building(i)
    \/ \E i \in TileInputs : add_entity_to_building(i)
    \/ \E i \in TileInputs : remove_entity_from_building(i)

SpecOwners == InitOwners /\ [][NextOwners]_vars

(* ------------------------------------------------------------------ *)
(* The read-only queries of the town (&self), on the towns that the    *)
(* placements, the removals and the ledger calls leave.                *)
(* ------------------------------------------------------------------ *)
building_type_query(i) == Ask("building_type", i, 0, Town_building_type(map, i))

forest_size_query == Ask("forest_size", NoTile, 0, Town_forest_size(state))

forest_usage_query == Ask("forest_usage", NoTile, 0, Town_forest_usage(state))

get_buildable_tile_query(xy) == Ask("get_buildable_tile", xy, 0, Town_get_buildable_tile(map, xy))

\* the indices that positions on the screen project to: the tile inputs, two
\* corners of the grid and an index beyond the grid in both coordinates
Projections == TileInputs \cup {<<0, 0>>, <<TOWN_X - 1, TOWN_Y - 1>>, <<TOWN_X, TOWN_Y>>}

NextReadOnly ==
    \/ \E i \in TileInputs, bt \in BuildingTypes, id \in Owners : place_building(i, bt, id)
    \/ \E i \in TileInputs : remove_building(i)
    \/ \E task \in TaskTypes : add_stateful_task(task)
    \/ \E new_score \in 0..MaxForest : update_forest_size(new_score)
    \/ \E i \in TileInputs : building_type_query(i)
    \/ forest_size_query
    \/ forest_usage_query
    \/ forest_size_free_query
    \/ \E pos \in {i \in TileInputs : InGrid(i)}, range2 \in Ranges2 : lane_in_range_query(pos, range2)
    \/ \E i \in {i \in TileInputs : InGrid(i)} : distance_to_lane_query(i)
    \/ \E xy \in Projections : get_buildable_tile_query(xy)

SpecReadOnly == InitQuery /\ [][NextReadOnly]_vars

(* ------------------------------------------------------------------ *)
(* The tile operations on neighbouring tiles, with tasks begun         *)
(* ------------------------------------------------------------------ *)
\* two empty tiles side by side and an index outside the grid
LocalTiles == {<<10, 5>>, <<11, 5>>, <<TOWN_X, 5>>}

InitLocal ==
    /\ map = basic_map
    /\ state = TownState_new
    /\ debug_assertions \in BOOLEAN
    /\ observe \in LocalTiles
    /\ last = [op |-> "new", i |-> NoTile, res |-> "Ok", val |-> NoOwner]
    /\ hist = NoHist
    /\ run = [u0 |-> 0, b |-> 0, e |-> 0, ok |-> TRUE]
    /\ win = [u0 |-> 0, nb |-> 0, ne |-> 0, ok |-> TRUE]
    /\ query = NoQuery
    /\ pc = Idle
    /\ lent = NoneLent
    /\ game = Game_new

NextLocal ==
    \/ \E i \in LocalTiles, bt \in BuildingTypes, id \in Owners : place_building(i, bt, id)
    \/ \E i \in LocalTiles : remove_building(i)
    \/ \E i \in LocalTiles : add_entity_to_building(i)
    \/ \E i \in LocalTiles : remove_entity_from_building(i)
    \/ \E task \in TaskTypes : add_stateful_task(task)

SpecLocal == InitLocal /\ [][NextLocal]_vars

(* ------------------------------------------------------------------ *)
(* Game: the callbacks update, draw and event of the game loop, each   *)
(* taking the Game by &mut self, and the network channel. The pointer  *)
(* manager, create_entities and the systems of the dispatcher are not  *)
(* part of the tree: they are the input layer, the network-apply layer *)
(* and the simulation of the written specification, which call the     *)
(* mutating operations of the town.                                    *)
(* ------------------------------------------------------------------ *)
NetMsgs == {"Buildings", "Resources"}

\* no exclusive borrow of the Game: a callback may start inside another
Game_borrowed_never == FALSE

\* a callback that has not returned holds the Game
Game_borrowed == game.upd # "idle" \/ game.drw # "idle" \/ game.evt # "idle"

\* a render that builds the town anew
Town_render_resets(m, st) == Outcome(basic_map, TownState_new, "Ok", NoOwner)

\* town.render on the town fetched by read_resource: the town is read only
Town_render(m, st) == Outcome(m, st, "Ok", NoOwner)

\* a town operation called by a callback; only a panic is recorded
TownStep(op, i, o, g) ==
    /\ map' = o.map
    /\ state' = o.state
    /\ last' = IF o.res = "panic" THEN Panic(op, i) ELSE last
    /\ game' = g
    /\ UNCHANGED <<debug_assertions, observe, hist, run, win, query, pc, lent>>

\* a step of a callback that calls no town operation
GameStep(g) ==
    /\ game' = g
    /\ UNCHANGED <<map, state, debug_assertions, observe, last, hist, run, win, query, pc, lent>>

\* the network thread sends a message
net_send(msg) ==
    /\ Running
    /\ Len(game.chan) < MaxChan
    /\ GameStep([game EXCEPT !.chan = Append(@, msg)])

Game_update_begin ==
    /\ Running
    /\ ~Game_borrowed
    /\ GameStep([game EXCEPT !.upd = "pointer", !.local_call = FALSE])

\* pointer_manager.run: the clicks since the last update; a click may place a building
Game_update_pointer ==
    /\ Running
    /\ game.upd = "pointer"
    /\ \/ GameStep([game EXCEPT !.upd = "tick"])
       \/ \E i \in TileInputs, bt \in BuildingTypes, id \in Owners :
            TownStep("place_building", i, Town_place_building(map, state, debug_assertions, i, bt, id),
                     [game EXCEPT !.upd = "tick", !.local_call = TRUE, !.local_tick = TRUE, !.wrote = "update"])

\* ClockTick(tick.0 + 1): the next tick begins
Game_update_tick ==
    /\ Running
    /\ game.upd = "tick"
    /\ GameStep([game EXCEPT !.upd = "net", !.local_tick = FALSE, !.netted = FALSE, !.took = 0])

\* try_recv: at most one message is taken and applied; Buildings creates the
\* entities of the buildings it names, Resources leaves the town alone
Game_update_net ==
    /\ Running
    /\ game.upd = "net"
    /\ IF game.chan = <<>>
       THEN GameStep([game EXCEPT !.upd = "dispatch"])
       ELSE IF Head(game.chan) = "Buildings"
            THEN \E i \in TileInputs, bt \in BuildingTypes, id \in Owners :
                    TownStep("place_building", i, Town_place_building(map, state, debug_assertions, i, bt, id),
                             [game EXCEPT !.upd = "dispatch", !.chan = Tail(@), !.netted = TRUE, !.wrote = "update"])
            ELSE GameStep([game EXCEPT !.upd = "dispatch", !.chan = Tail(@), !.netted = TRUE])

\* dispatcher.dispatch, reaper, maintain: a system may begin or end a task
Game_update_dispatch ==
    /\ Running
    /\ game.upd = "dispatch"
    /\ \/ GameStep([game EXCEPT !.upd = "idle"])
       \/ \E task \in TaskTypes :
            /\ state.forest_usage < MaxUsage
            /\ TownStep("add_stateful_task", NoTile, Town_add_stateful_task(map, state, task), [game EXCEPT !.upd = "idle", !.wrote = "update"])
       \/ \E task \in TaskTypes :
            TownStep("remove_stateful_task", NoTile, Town_remove_stateful_task(map, state, task), [game EXCEPT !.upd = "idle", !.wrote = "update"])

Game_draw_begin ==
    /\ Running
    /\ ~Game_borrowed
    /\ GameStep([game EXCEPT !.drw = "render"])

\* town.render and the other renderers
Game_draw_render ==
    /\ Running
    /\ game.drw = "render"
    /\ TownStep("render", NoTile, Town_render(map, state), [game EXCEPT !.drw = "idle", !.wrote = IF Town_render(map, state).map # map \/ Town_render(map, state).state # state THEN "draw" ELSE @])

Game_event_begin(event) ==
    /\ Running
    /\ ~Game_borrowed
    /\ GameStep([game EXCEPT !.evt = event])

\* the Delete key removes the building of the selected entity, if there is one
Game_event_handle ==
    /\ Running
    /\ game.evt # "idle"
    /\ \/ GameStep([game EXCEPT !.evt = "idle"])
       \/ /\ game.evt = "Delete"
          /\ \E i \in TileInputs :
                TownStep("remove_building", i, Town_remove_building(map, state, i),
                         [game EXCEPT !.evt = "idle", !.local_call = TRUE, !.local_tick = TRUE, !.wrote = "event"])

NextGame ==
    \/ \E msg \in NetMsgs : net_send(msg)
    \/ Game_update_begin
    \/ Game_update_pointer
    \/ Game_update_tick
    \/ Game_update_net
    \/ Game_update_dispatch
    \/ Game_draw_begin
    \/ Game_draw_render
    \/ \E event \in {"Delete", "Other"} : Game_event_begin(event)
    \/ Game_event_handle

SpecGame == InitQuery /\ [][NextGame]_vars

(* ------------------------------------------------------------------ *)
(* The network channel with its messages numbered in the order they    *)
(* are sent: message n is the n-th message sent. update is called      *)
(* again and again by the game loop as long as the program runs.       *)
(* ------------------------------------------------------------------ *)
\* the network thread sends the next message
net_send_numbered(kind) ==
    /\ Running
    /\ game.sent < MaxSent
    /\ Len(game.chan) < MaxChan
    /\ GameStep([game EXCEPT !.chan = Append(@, [kind |-> kind, id |-> game.sent + 1]), !.sent = @ + 1])

\* a receiver that hands out the message sent last
try_recv_newest(chan) == [msg |-> chan[Len(chan)], rest |-> SubSeq(chan, 1, Len(chan) - 1)]

\* Receiver::try_recv on a channel that is not empty: the message sent first
try_recv(chan) == [msg |-> Head(chan), rest |-> Tail(chan)]

\* try_recv and the match on the message: at most one message is taken; it
\* counts as applied when its arm has returned
Game_update_recv ==
    /\ Running
    /\ game.upd = "net"
    /\ IF game.chan = <<>>
       THEN GameStep([game EXCEPT !.upd = "dispatch"])
       ELSE IF try_recv(game.chan).msg.kind = "Buildings"
            THEN \E i \in TileInputs, bt \in BuildingTypes, id \in Owners :
                    TownStep("place_building", i, Town_place_building(map, state, debug_assertions, i, bt, id),
                             [game EXCEPT !.upd = "dispatch", !.chan = try_recv(game.chan).rest, !.netted = TRUE, !.wrote = "update", !.took = @ + 1,
                                          !.applied = IF Town_place_building(map, state, debug_assertions, i, bt, id).res = "panic" THEN @ ELSE Append(@, try_recv(game.chan).msg.id)])
            ELSE GameStep([game EXCEPT !.upd = "dispatch", !.chan = try_recv(game.chan).rest, !.netted = TRUE, !.took = @ + 1, !.applied = Append(@, try_recv(game.chan).msg.id)])

\* one step of a call of update
Game_update ==
    \/ Game_update_begin
    \/ Game_update_pointer
    \/ Game_update_tick
    \/ Game_update_recv
    \/ Game_update_dispatch

NextNet ==
    \/ \E kind \in NetMsgs : net_send_numbered(kind)
    \/ Game_update_begin
    \/ Game_update_pointer
    \/ Game_update_tick
    \/ Game_update_recv
    \/ Game_update_dispatch

SpecNet == InitQuery /\ [][NextNet]_vars /\ WF_vars(Game_update)

TypeOK ==
    /\ debug_assertions \in BOOLEAN
    /\ state.forest_size \in 0..MaxForest
    /\ state.forest_usage \in 0..MaxUsage
    /\ DOMAIN state.tiles \subseteq {i \in TileInputs : InGrid(i)}

(* ------------------------------------------------------------------ *)
(* Properties                                                          *)
(* ------------------------------------------------------------------ *)

\* C1: a TileState exists for a tile iff the tile's type is Building, in every
\* reachable state, and add_entity_to_building / remove_entity_from_building
\* on a Building tile never return NoStateForTile.
RegistryMatchesMap ==
    /\ \A x \in 0..(TOWN_X - 1), y \in 0..(TOWN_Y - 1) : HasState(state, <<x, y>>) <=> IsBuilding(tile_type(map, <<x, y>>))
    /\ \A i \in DOMAIN state.tiles : IsBuilding(tile_type(map, i))
    /\ (last.op \in {"add_entity_to_building", "remove_entity_from_building"} /\ last.res = "NoStateForTile") => ~IsBuilding(tile_type(map, last.i))

\* an entity call on a Building tile was answered by its TileState
RegistryMatchesMapWitness ==
    /\ last.op = "add_entity_to_building"
    /\ last.res = "CapacityExceeded"
    /\ IsBuilding(tile_type(map, last.i))
    /\ HasState(state, last.i)

\* C2: every TileState has 0 <= occupancy <= capacity in every reachable state.
OccupancyWithinCapacity == \A i \in DOMAIN state.tiles : state.tiles[i].entity_count >= 0 /\ state.tiles[i].entity_count <= state.tiles[i].capacity

\* a full building after a rejected add
OccupancyWithinCapacityWitness ==
    /\ last.op = "add_entity_to_building"
    /\ last.res = "CapacityExceeded"
    /\ HasState(state, last.i)
    /\ state.tiles[last.i].entity_count = state.tiles[last.i].capacity
    /\ state.tiles[last.i].capacity = 2

\* C3: a tile that is Lane in the initial layout is Lane in every reachable state.
LaneStaysLane == \A x \in 0..(TOWN_X - 1), y \in 0..(TOWN_Y - 1) : basic_map[x][y] = LANE => map[x][y] = LANE

\* C4: place_building on a tile that is not buildable (Lane, Building, outside
\* of the grid) fails with NotBuildable and leaves map and registry unchanged.
PlaceOnUnbuildableFails == [][\A i \in TileInputs, bt \in BuildingTypes, id \in Owners : (i = observe /\ last'.op = "place_building" /\ ~Town_is_buildable(map, i) /\ place_building(i, bt, id)) => (last'.res = "NotBuildable" /\ map' = map /\ state' = state)]_vars

\* C5: after place_building(i, k, o) on a buildable tile and any add / remove
\* entity calls on i, remove_building(i) returns o, sets the tile to Empty and
\* removes the TileState of i.
PlaceThenRemoveReturnsOwner == [][\A i \in TileInputs : (i = observe /\ last'.op = "remove_building" /\ hist.owner # NoOwner /\ remove_building(i)) => (last'.res = "Ok" /\ last'.val = hist.owner /\ tile_type(map', i) = EMPTY /\ ~HasState(state', i))]_vars

\* a building that was placed on a buildable tile and filled was removed
PlaceThenRemoveReturnsOwnerWitness ==
    /\ debug_assertions
    /\ last.op = "remove_building"
    /\ last.res = "Ok"
    /\ last.val \in Owners
    /\ hist.reused
    /\ tile_type(map, last.i) = EMPTY

\* C6: a successful place_building(i, kind, owner) sets the tile to
\* Building(kind) and inserts a TileState with that owner, capacity
\* kind.capacity() and occupancy 0, also on a tile that held an occupied
\* building before.
PlaceInsertsFreshState == [][\A i \in TileInputs, bt \in BuildingTypes, id \in Owners : (i = observe /\ last'.op = "place_building" /\ last'.res = "Ok" /\ place_building(i, bt, id)) => (tile_type(map', i) = BUILDING(bt) /\ HasState(state', i) /\ state'.tiles[i] = [entity |-> id, capacity |-> capacity(bt), entity_count |-> 0])]_vars

\* a placement on a tile from which an occupied building was removed
PlaceInsertsFreshStateWitness ==
    /\ last.op = "place_building"
    /\ last.res = "Ok"
    /\ hist.reused
    /\ hist.owner # NoOwner
    /\ HasState(state, last.i)
    /\ state.tiles[last.i].entity_count = 0

\* C7: on a freshly placed building of capacity C the first C consecutive
\* add_entity_to_building calls succeed and raise occupancy by one each, the
\* (C+1)-th fails with CapacityExceeded and leaves occupancy at C.
FirstCAddsSucceed == [][\A i \in TileInputs : (i = observe /\ last'.op = "add_entity_to_building" /\ hist.adds >= 0 /\ hist.adds <= state.tiles[i].capacity /\ add_entity_to_building(i)) => IF hist.adds < state.tiles[i].capacity THEN (last'.res = "Ok" /\ state.tiles[i].entity_count = hist.adds /\ state'.tiles[i].entity_count = hist.adds + 1) ELSE (last'.res = "CapacityExceeded" /\ state'.tiles[i].entity_count = state.tiles[i].capacity)]_vars

\* the (C+1)-th add on a fresh building of capacity 2 was rejected
FirstCAddsSucceedWitness ==
    /\ last.op = "add_entity_to_building"
    /\ last.res = "CapacityExceeded"
    /\ HasState(state, last.i)
    /\ state.tiles[last.i].capacity = 2
    /\ hist.adds = 3
    /\ state.tiles[last.i].entity_count = 2

\* C8: remove_entity_from_building fails with Underflow and leaves occupancy
\* at 0 when occupancy is 0, and succeeds and lowers occupancy by one otherwise.
RemoveEntityUnderflow == [][\A i \in TileInputs : (i = observe /\ last'.op = "remove_entity_from_building" /\ HasState(state, i) /\ remove_entity_from_building(i)) => IF state.tiles[i].entity_count = 0 THEN (last'.res = "Underflow" /\ state'.tiles[i].entity_count = 0) ELSE (last'.res = "Ok" /\ state'.tiles[i].entity_count = state.tiles[i].entity_count - 1)]_vars

\* a removal from an empty building was rejected
RemoveEntityUnderflowWitness ==
    /\ last.op = "remove_entity_from_building"
    /\ last.res = "Underflow"
    /\ HasState(state, last.i)
    /\ state.tiles[last.i].entity_count = 0

\* C9: add_entity_to_building and remove_entity_from_building on a tile
\* without TileState (Empty, Lane, outside of the grid) return NoStateForTile
\* and leave map, registry and ledger unchanged.
NoStateForTileReported == [][\A i \in TileInputs : (i = observe /\ last'.op \in {"add_entity_to_building", "remove_entity_from_building"} /\ ~HasState(state, i) /\ (add_entity_to_building(i) \/ remove_entity_from_building(i))) => (last'.res = "NoStateForTile" /\ map' = map /\ state' = state)]_vars

\* an entity call on an index outside of the grid was answered NoStateForTile
NoStateForTileReportedWitness ==
    /\ last.op = "remove_entity_from_building"
    /\ last.res = "NoStateForTile"
    /\ ~InGrid(last.i)
    /\ state.forest_usage > 0

\* C10: after N begins followed by N ends the usage is what it was before the
\* N begins, and the N ends all succeed (run.b begins from usage run.u0, of
\* which the last N = run.e are matched by the run.e ends).
BalancedRunRestoresUsage == (observe = NoTile /\ run.b > 0 /\ run.e <= run.b) => (run.ok /\ state.forest_usage = run.u0 + (run.b - run.e))

\* begins from a usage above zero, followed by as many ends, all successful
BalancedRunRestoresUsageWitness ==
    /\ observe = NoTile
    /\ last.op = "remove_stateful_task"
    /\ last.res = "Ok"
    /\ run.b >= 1
    /\ run.u0 >= 1
    /\ run.e = run.b

\* C11 (as claimed): after N begins followed by N ends, the (N+1)-th end
\* fails with Imbalance.
ExtraEndFails == (observe = NoTile /\ last.op = "remove_stateful_task" /\ run.e = run.b + 1) => last.res = "Imbalance"

\* C11 (amended): after N begins from usage 0 followed by N ends, the
\* (N+1)-th end fails with Imbalance and leaves the usage at 0.
ExtraEndFailsFromZero == (observe = NoTile /\ last.op = "remove_stateful_task" /\ run.e = run.b + 1 /\ run.u0 = 0) => (last.res = "Imbalance" /\ state.forest_usage = 0)

\* two begins from usage 0, two ends, and a third end that was rejected
ExtraEndFailsFromZeroWitness ==
    /\ observe = NoTile
    /\ last.op = "remove_stateful_task"
    /\ last.res = "Imbalance"
    /\ run.u0 = 0
    /\ run.b = 2
    /\ run.e = 3
    /\ run.ok

\* C12: the usage counter is >= 0 in every reachable state, and
\* remove_stateful_task at usage 0 fails with Imbalance and leaves it at 0.
UsageNeverNegative == [][state.forest_usage >= 0 /\ state'.forest_usage >= 0 /\ \A task \in TaskTypes : (observe = NoTile /\ last'.op = "remove_stateful_task" /\ state.forest_usage = 0 /\ remove_stateful_task(task)) => (last'.res = "Imbalance" /\ state'.forest_usage = 0)]_vars

\* an end at usage 0 was rejected after the counter had been used
UsageNeverNegativeWitness ==
    /\ observe = NoTile
    /\ last.op = "remove_stateful_task"
    /\ last.res = "Imbalance"
    /\ state.forest_usage = 0
    /\ run.b >= 1

NoCallPanics == last.res # "panic"

\* C16: between two consecutive states the type of a tile stays the same, or
\* goes from Empty to Building by a place_building on that tile, or from
\* Building to Empty by a remove_building on that tile.
TileTypeTransitions == [][\A i \in TileInputs : (InGrid(i) /\ tile_type(map', i) # tile_type(map, i)) => ((tile_type(map, i) = EMPTY /\ IsBuilding(tile_type(map', i)) /\ \E bt \in BuildingTypes, id \in Owners : place_building(i, bt, id)) \/ (IsBuilding(tile_type(map, i)) /\ tile_type(map', i) = EMPTY /\ remove_building(i)))]_vars

\* C17: while a tile stays occupied, its building kind, its capacity and its
\* owner do not change.
OccupiedTileImmutable == [][\A i \in TileInputs : (HasState(state, i) /\ HasState(state', i)) => (tile_type(map', i) = tile_type(map, i) /\ state'.tiles[i].capacity = state.tiles[i].capacity /\ state'.tiles[i].entity = state.tiles[i].entity)]_vars

\* C18: tile_type returns a tile type for every index with 0 <= x < 23 and
\* 0 <= y < 13, and None for every other index.
TileTypeInBounds == query.fn = "tile_type" => IF query.arg[1] >= 0 /\ query.arg[1] < TOWN_X /\ query.arg[2] >= 0 /\ query.arg[2] < TOWN_Y THEN (query.res = EMPTY \/ query.res = LANE \/ \E bt \in BuildingTypes : query.res = BUILDING(bt)) ELSE query.res = None

\* an index inside the grid in x and just outside of it in y
TileTypeInBoundsWitness ==
    /\ query.fn = "tile_type"
    /\ query.arg = <<0, TOWN_Y>>
    /\ query.res = None
    /\ \E i \in TileInputs : HasState(state, i)

\* C19: Empty is buildable and walkable, Lane is walkable and not buildable,
\* Building is neither.
BuildableWalkableByType ==
    /\ query.fn = "is_buildable" => ((query.res.t = EMPTY => query.res.v) /\ (query.res.t = LANE => ~query.res.v) /\ (IsBuilding(query.res.t) => ~query.res.v))
    /\ query.fn = "is_walkable" => ((query.res.t = EMPTY => query.res.v) /\ (query.res.t = LANE => query.res.v) /\ (IsBuilding(query.res.t) => ~query.res.v))

\* a building was asked whether it is walkable
BuildableWalkableByTypeWitness ==
    /\ query.fn = "is_walkable"
    /\ IsBuilding(query.res.t)
    /\ ~query.res.v

\* C20: for every centre in the grid and every radius r >= 0,
\* tiles_in_rectified_circle(centre, r) returns exactly the tiles of the grid
\* at a squared distance of at most r * r from the centre; for the centre
\* (5,5) and r = 1 these are (5,5), (4,5), (6,5), (5,4), (5,6).
CircleIsExact == query.fn = "tiles_in_rectified_circle" =>
    /\ last.res # "panic"
    /\ query.res = {t \in GridTiles : are_tiles_in_range(query.arg, t, query.range2)}
    /\ (query.arg = <<5, 5>> /\ query.range2 = 2) => query.res = {<<5, 5>>, <<4, 5>>, <<6, 5>>, <<5, 4>>, <<5, 6>>}

\* C15: the two writes of place_building and of remove_building are atomic
\* for every observer: no reader, in any interleaving of calls and queries,
\* sees the map of a tile written and its registry entry not, or the reverse;
\* what a reader sees of a tile is a Building with a state or neither.
AtomicForObservers == query.fn = "read_tile" => (IsBuilding(query.res.t) <=> query.res.s)

\* a reader saw the tile (10,5) after a placement on it had returned
AtomicForObserversWitness ==
    /\ query.fn = "read_tile"
    /\ query.arg = <<10, 5>>
    /\ query.res.t = BUILDING("BundlingStation")
    /\ query.res.s
    /\ last.op = "place_building"
    /\ state.tiles[<<10, 5>>].entity = 2

\* C21: lane_in_range(centre, r) returns exactly the tiles of
\* tiles_in_rectified_circle(centre, r) whose current type is Lane (and panics
\* when that panics); on the basic layout it is empty whenever the row of the
\* centre is more than r rows away from row 6, as for the centre (10,0) and r = 2.
LaneInRangeIsLaneOfCircle == [][(query.fn = NoQuery.fn /\ query'.fn = "lane_in_range") =>
    /\ (last'.res = "panic") <=> (tiles_in_rectified_circle(debug_assertions, query'.arg, query'.range2).res = "panic")
    /\ last'.res # "panic" => query'.res = {t \in tiles_in_rectified_circle(debug_assertions, query'.arg, query'.range2).tiles : tile_type(map, t) = LANE}
    /\ (map = basic_map /\ query'.range2 # HugeRange2 /\ (2 * (query'.arg[2] - TOWN_LANE_Y) > query'.range2 \/ 2 * (TOWN_LANE_Y - query'.arg[2]) > query'.range2)) => query'.res = {}
    /\ (map = basic_map /\ query'.arg = <<10, 0>> /\ query'.range2 = 4) => query'.res = {}]_vars

\* a lane tile in range had been built over before the query: the lane tiles
\* of the circle of radius 1 around (10,6) are then (9,6) and (11,6)
LaneInRangeIsLaneOfCircleWitness ==
    /\ query.fn = "lane_in_range"
    /\ query.arg = <<10, 6>>
    /\ query.range2 = 2
    /\ query.res = {<<9, 6>>, <<11, 6>>}

\* C22 (as claimed): on the basic layout lane_in_range((10,4), 2) returns the
\* Lane tiles with x in 8..12 on row 6.
LaneInRangeOfBox == (query.fn = "lane_in_range" /\ query.arg = <<10, 4>> /\ query.range2 = 4) => query.res = {<<x, TOWN_LANE_Y>> : x \in 8..12}

\* C22 (amended): on the basic layout lane_in_range((10,4), 2) returns the one
\* Lane tile at a distance of at most 2 from (10,4), the tile (10,6).
LaneInRangeOfCircle == (map = basic_map /\ query.fn = "lane_in_range" /\ query.arg = <<10, 4>> /\ query.range2 = 4) => query.res = {<<10, TOWN_LANE_Y>>}

LaneInRangeOfCircleWitness ==
    /\ map = basic_map
    /\ query.fn = "lane_in_range"
    /\ query.arg = <<10, 4>>
    /\ query.range2 = 4
    /\ Cardinality(query.res) = 1

\* C23: distance_to_lane(i) is the minimum Euclidean distance from i to a tile
\* of type Lane; on the basic layout it is |y - 6| for every tile (x, y) of the
\* grid, and 0 exactly for the lane tiles. (The distances are compared by
\* their squares.)
DistanceToLaneIsRowDistance == (map = basic_map /\ query.fn = "distance_to_lane") =>
    /\ \A t \in GridTiles : tile_type(map, t) = LANE => query.res <= distance2(query.arg, t)
    /\ \E t \in GridTiles : tile_type(map, t) = LANE /\ query.res = distance2(query.arg, t)
    /\ query.res = (query.arg[2] - TOWN_LANE_Y) * (query.arg[2] - TOWN_LANE_Y)
    /\ (query.res = 0) <=> (tile_type(map, query.arg) = LANE)

\* the distance of a corner tile to the lane
DistanceToLaneIsRowDistanceWitness ==
    /\ query.fn = "distance_to_lane"
    /\ query.arg = <<TOWN_X - 1, TOWN_Y - 1>>
    /\ query.res = (TOWN_Y - 1 - TOWN_LANE_Y) * (TOWN_Y - 1 - TOWN_LANE_Y)

\* C24: forest_size_free always returns forest_size - forest_usage as a signed
\* difference: when the usage exceeds the size the result is the negative
\* difference, not a wrapped unsigned value and not a crash.
FreeIsSignedDifference == [][(query.fn = NoQuery.fn /\ query'.fn = "forest_size_free") =>
    /\ last'.res # "panic"
    /\ query'.res = [carry |-> 0, rest |-> state.forest_size - state.forest_usage]]_vars

\* C27: add_stateful_task (register_begin) always succeeds and raises the usage
\* by exactly one, also when the usage is already equal to or above the forest
\* size: a begin is never rejected for lack of capacity.
BeginAlwaysSucceeds == [][(last'.op = "add_stateful_task" /\ \E task \in TaskTypes : add_stateful_task(task)) =>
    /\ last'.res = "Ok"
    /\ state'.forest_usage = state.forest_usage + 1]_vars

\* a begin succeeded at a usage that was not below the forest size
BeginAlwaysSucceedsWitness ==
    /\ last.op = "add_stateful_task"
    /\ last.res = "Ok"
    /\ state.forest_usage > state.forest_size
    /\ state.forest_size > 0

\* C28: update_forest_size and grow_forest change only forest_size and leave
\* forest_usage (and the tiles) unchanged; add_stateful_task and
\* remove_stateful_task change only forest_usage and leave forest_size (and
\* the tiles) unchanged.
SizeAndUsageChangeApart == [][
    /\ (last'.op \in {"update_forest_size", "grow_forest"} /\ ((\E new_score \in 0..MaxForest : update_forest_size(new_score)) \/ (\E add_score \in 1..MaxForest : grow_forest(add_score))))
        => (state'.forest_usage = state.forest_usage /\ state'.tiles = state.tiles /\ map' = map)
    /\ (last'.op \in {"add_stateful_task", "remove_stateful_task"} /\ \E task \in TaskTypes : add_stateful_task(task) \/ remove_stateful_task(task))
        => (state'.forest_size = state.forest_size /\ state'.tiles = state.tiles /\ map' = map)]_vars

\* the forest size was set below the usage, and the usage stayed
SizeAndUsageChangeApartWitness ==
    /\ last.op = "update_forest_size"
    /\ state.forest_size = 0
    /\ state.forest_usage = MaxUsage

\* C29: the registry insert of place_building for a tile is executed only when
\* no TileState for that tile exists: a placement that returns never
\* overwrites an entry.
InsertNeverOverwrites == [][\A i \in TileInputs : (i = observe /\ last'.op = "place_building" /\ last'.res = "Ok" /\ \E bt \in BuildingTypes, id \in Owners : place_building(i, bt, id)) => ~HasState(state, i)]_vars

\* C30: when each owner is passed to at most one place_building at a time,
\* every owner is referenced by at most one TileState in every reachable
\* state, and an owner that remove_building has returned is referenced by no
\* TileState (until it is passed again).
OwnerReferencedOnce == observe = Lending =>
    /\ \A o \in Owners : Cardinality({i \in DOMAIN state.tiles : state.tiles[i].entity = o}) <= 1
    /\ \A o \in Owners \ lent.out : \A i \in DOMAIN state.tiles : state.tiles[i].entity # o

\* one owner was handed back and is referenced nowhere, another is referenced
OwnerReferencedOnceWitness ==
    /\ observe = Lending
    /\ \E o \in lent.back \ lent.out : \A i \in DOMAIN state.tiles : state.tiles[i].entity # o
    /\ \E o \in lent.out : \E i \in DOMAIN state.tiles : state.tiles[i].entity = o

\* At most one of update, draw and event is running.
OneCallback ==
    /\ game.upd = "idle" \/ game.drw = "idle"
    /\ game.upd = "idle" \/ game.evt = "idle"
    /\ game.drw = "idle" \/ game.evt = "idle"

\* C25 (as claimed): the town is mutated only inside update: draw and every
\* handler outside of update only read it, and update and draw never overlap.
TownMutatedOnlyInUpdate == [][OneCallback /\ ((map' # map \/ state' # state) => (game.upd # "idle" /\ game.drw = "idle" /\ game.evt = "idle"))]_vars

\* C25 (amended): the town is mutated only inside update or inside the event
\* handler (the Delete key); draw only reads it; update, draw and event never
\* overlap.
TownMutatedOnlyInUpdateOrEvent == [][OneCallback /\ ((map' # map \/ state' # state) => (game.drw = "idle" /\ (game.upd # "idle" \/ game.evt # "idle")))]_vars

\* the Delete key removed a building between two callbacks
TownMutatedOnlyInUpdateOrEventWitness ==
    /\ game.wrote = "event"
    /\ game.evt = "idle"
    /\ last.res # "panic"
    /\ ~HasState(state, <<10, 5>>)
    /\ tile_type(map, <<10, 6>>) = LANE

InitialTownIsBasicLayout ==
    game.wrote = "none" =>
        /\ DOMAIN map = 0..22
        /\ \A x \in 0..22 : DOMAIN map[x] = 0..12
        /\ \A x \in 0..22, y \in 0..12 : (map[x][y] = LANE <=> y = 6) /\ (map[x][y] = EMPTY <=> y # 6)
        /\ \A index \in QueryIndices : ~HasState(state, index)
        /\ state.tiles = <<>>

\* update has applied a network message to the town as it was constructed, and
\* no callback has changed the town yet
InitialTownIsBasicLayoutWitness ==
    /\ game.wrote = "none"
    /\ game.netted
    /\ game.upd = "dispatch"
    /\ tile_type(map, <<10, 6>>) = LANE
    /\ tile_type(map, <<10, 5>>) = EMPTY

ReadOnlyQueries == {"building_type", "forest_size", "forest_usage", "forest_size_free", "lane_in_range", "distance_to_lane", "get_buildable_tile"}

\* C32: the read-only queries building_type, forest_size, forest_usage,
\* forest_size_free, lane_in_range, distance_to_lane and get_buildable_tile
\* leave the tile map, the registry and the ledger unchanged, and
\* get_buildable_tile returns an index only when that index is inside the grid
\* and its tile is buildable.
QueriesLeaveTownUnchanged ==
    [][(query.fn = NoQuery.fn /\ query'.fn # NoQuery.fn) =>
            /\ query'.fn \in ReadOnlyQueries
            /\ map' = map
            /\ state' = state
            /\ (query'.fn = "get_buildable_tile" /\ query'.res.some) =>
                    /\ query'.res.index \in (0..22) \X (0..12)
                    /\ map[query'.res.index[1]][query'.res.index[2]] = EMPTY]_vars

\* get_buildable_tile returned the empty tile (10,5) of a town with a lane
\* tile built over or with tasks begun
QueriesLeaveTownUnchangedWitness ==
    /\ query.fn = "get_buildable_tile"
    /\ query.res.some
    /\ query.res.index = <<10, 5>>
    /\ map[10][5] = EMPTY
    /\ state.forest_usage > 0

\* C33: remove_building(i) that fails (tile i has no TileState: Empty, Lane or
\* out-of-grid index) returns NoStateForTile and leaves the tile map and the
\* registry exactly as they were; the map is never set to Empty by a failing
\* removal.
FailingRemovalChangesNothing ==
    [][(observe # NoTile /\ ~HasState(state, observe) /\ last'.op = "remove_building" /\ remove_building(observe)) =>
            /\ last'.res = "NoStateForTile"
            /\ map' = map
            /\ state' = state]_vars

\* the type and the TileState of every tile but i, and the ledger, are the same
\* before and after the step
OthersUnchanged(i) ==
    /\ DOMAIN map' = DOMAIN map
    /\ \A x \in DOMAIN map \ {i[1]} : map'[x] = map[x]
    /\ i[1] \in DOMAIN map =>
            /\ DOMAIN map'[i[1]] = DOMAIN map[i[1]]
            /\ \A y \in DOMAIN map[i[1]] \ {i[2]} : map'[i[1]][y] = map[i[1]][y]
    /\ \A j \in ((DOMAIN state.tiles) \cup (DOMAIN state'.tiles)) \ {i} :
            /\ HasState(state', j) /\ HasState(state, j)
            /\ state'.tiles[j] = state.tiles[j]
    /\ state'.forest_size = state.forest_size
    /\ state'.forest_usage = state.forest_usage

\* C34: tile operations are local: place_building(i), remove_building(i),
\* add_entity_to_building(i) and remove_entity_from_building(i), successful or
\* failing, leave the type and the TileState (owner, capacity, occupancy) of
\* every tile j # i unchanged and leave forest_size and forest_usage unchanged.
TileOperationsAreLocal ==
    [][/\ (last'.op = "place_building" /\ last'.i = observe /\ \E bt \in BuildingTypes, id \in Owners : place_building(observe, bt, id)) => OthersUnchanged(observe)
       /\ (last'.op = "remove_building" /\ last'.i = observe /\ remove_building(observe)) => OthersUnchanged(observe)
       /\ (last'.op = "add_entity_to_building" /\ last'.i = observe /\ add_entity_to_building(observe)) => OthersUnchanged(observe)
       /\ (last'.op = "remove_entity_from_building" /\ last'.i = observe /\ remove_entity_from_building(observe)) => OthersUnchanged(observe)]_vars

\* the building of (10,5) was removed while (11,5) holds a building with an
\* occupant and a task is running
TileOperationsAreLocalWitness ==
    /\ observe = <<10, 5>>
    /\ last.op = "remove_building"
    /\ last.res = "Ok"
    /\ HasState(state, <<11, 5>>)
    /\ state.tiles[<<11, 5>>].entity_count = 1
    /\ state.forest_usage = 1

\* C35: range membership is symmetric and reflexive on the grid: for all
\* in-grid tiles a, b and every radius r >= 0, b is in
\* tiles_in_rectified_circle(a, r) if and only if a is in
\* tiles_in_rectified_circle(b, r), and a is always in
\* tiles_in_rectified_circle(a, r).
RangeMembershipSymmetric ==
    query.fn = "tiles_in_rectified_circle" =>
        /\ last.res # "panic"
        /\ query.arg \in query.res
        /\ \A b \in GridTiles : b \in query.res <=> query.arg \in tiles_in_rectified_circle(debug_assertions, b, query.range2).tiles

\* the numbers of the messages in the channel, in the order of the channel
InChannel == [k \in 1..Len(game.chan) |-> game.chan[k].id]

\* C36: the update loop takes at most one message from the network channel per
\* update tick and applies messages in the order they were sent; under repeated
\* ticks (as long as the program runs) every message sent on a live channel is
\* eventually applied, none is lost, duplicated or reordered.
MessagesAppliedOncePerTickInOrder ==
    /\ [](game.took <= 1)
    /\ [](Running => game.applied \o InChannel = [k \in 1..game.sent |-> k])
    /\ \A n \in 1..MaxSent : (game.sent >= n) ~> (~Running \/ (Len(game.applied) >= n /\ game.applied[n] = n))

\* two messages were applied in two ticks while a third one waits in the channel
MessagesAppliedOncePerTickInOrderWitness ==
    /\ Running
    /\ game.applied = <<1, 2>>
    /\ InChannel = <<3>>
    /\ game.took = 1

====
